---- MODULE Spec2Model ----
(***************************************************************************)
(* Model of the loopix-messaging provider (package server) and of the     *)
(* helpers it uses.  The provider is one accept loop                       *)
(* (ListenForIncomingConnections) that starts one HandleConnection         *)
(* goroutine per accepted connection and waits for the first value that    *)
(* goroutine puts on its error channel.  The handlers RegisterNewClient,   *)
(* HandleAssignRequest, HandlePullRequest, AuthenticateUser, FetchMessages,*)
(* ReceivedPacket, ForwardPacket, StoreMessage and Send are operators that *)
(* compute the handler's result from the provider state; the actions apply *)
(* them.                                                                   *)
(*                                                                         *)
(* Byte strings are tuples (a token is a tuple of strings, a flag a tuple  *)
(* of byte values); an encoded protobuf message is the record of its       *)
(* fields tagged with its message type, and proto.Unmarshal checks the tag.*)
(***************************************************************************)
EXTENDS Integers, Sequences, FiniteSets, TLC

VARIABLES
    assignedClients, \* p.assignedClients : map[string]ClientRecord
    inboxes,         \* ./inboxes/<id>/<file> : directory -> (file name -> content)
    lpc,             \* position of the accept loop: "accept" or "wait"
    iters,           \* iterations of the accept loop started so far
    tasks,           \* the HandleConnection goroutines, in accept order
    crashed,         \* the Go runtime ended the process (fatal error)
    logged,          \* whether the accept loop's last iteration logged an error
    lastOp,          \* what the handler run last did (observation)
    issued,          \* per client id, the token RegisterNewClient returned last
    stored,          \* per client id, the payloads stored since its last fetch
    delivered,       \* per inbox file, how often its content was sent
    fetch,           \* one call of FetchMessages: its arguments and its result
    sample,          \* one call of Permute or RandomSample: arguments and result
    client           \* the client process: its accept loop and its handlers

vars == <<assignedClients, inboxes, lpc, iters, tasks, crashed, logged,
          lastOp, issued, stored, delivered, fetch, sample, client>>

(***************************************************************************)
(* Bounds and the finite universes the inputs are drawn from.             *)
(***************************************************************************)
MaxConns == 3

ClientIds == {"a", "b"}
Hosts == {"h1", "h2"}
ClientPort == "9000"
MixAddress == <<"mix1", ":", "9001">>
Payloads == {"m1", "m2"}
StalePayload == "m0"
InnerPacket == "onion'"

(***************************************************************************)
(* Flags: the envelope flags of the const block and the two inner flags   *)
(* ReceivedPacket switches on.  A flag is the tuple of its bytes:         *)
(* "\xA2" is one byte, "xA9" is the three characters x, A, 9.             *)
(***************************************************************************)
ASSIGNE_FLAG == <<162>>
COMM_FLAG == <<198>>
TOKEN_FLAG == <<120, 65, 57>>
PULL_FLAG == <<255>>
RelayFlag == <<241>>
FinalFlag == <<240>>
OtherFlag == <<0>>

Nil == "nil"

(***************************************************************************)
(* Go maps and the file system as partial functions.                      *)
(***************************************************************************)
Put(f, k, v) == [x \in (DOMAIN f) \cup {k} |-> IF x = k THEN v ELSE f[x]]

EmptyMap == [x \in {} |-> x]

ZeroRecord == [Id |-> "", Host |-> "", Port |-> "", PubKey |-> <<>>, Token |-> <<>>]

\* p.assignedClients[clientId]: the zero ClientRecord when the key is absent
Lookup(ac, clientId) == IF clientId \in DOMAIN ac THEN ac[clientId] ELSE ZeroRecord

\* host + ":" + port
Address(host, port) == <<host, ":", port>>

(***************************************************************************)
(* Encoded messages.                                                      *)
(***************************************************************************)
EmptyData == [type |-> "empty"]
Garbage == [type |-> "garbage"]

ClientConfigBytes(id, host) ==
    [type |-> "ClientConfig", Id |-> id, Host |-> host, Port |-> ClientPort,
     PubKey |-> <<"pk", id>>]

PullRequestBytes(id, token) ==
    [type |-> "PullRequest", ClientId |-> id, Token |-> token]

SphinxBytes(mac, flag, hopId, hopAddress, inner) ==
    [type |-> "Sphinx", mac |-> mac, Flag |-> flag,
     Hop |-> [Id |-> hopId, Address |-> hopAddress], Inner |-> inner]

\* proto.Unmarshal(bytes, &msg) for the message type the caller declares
Unmarshal(bytes, type) ==
    IF bytes.type = type
    THEN [err |-> Nil, msg |-> bytes]
    ELSE [err |-> "proto: cannot parse", msg |-> EmptyData]

ZeroPacket == [Flag |-> <<>>, Data |-> EmptyData]

\* proto.Unmarshal(buff[:reqLen], &packet) into a config.GeneralPacket:
\* nothing read gives the zero packet without error; an encoding whose tail
\* does not parse gives an error and leaves the fields decoded before it in
\* the packet.
UnmarshalPacket(wire) ==
    CASE wire.enc = "none" -> [err |-> Nil, packet |-> ZeroPacket]
      [] wire.enc = "ok" -> [err |-> Nil, packet |-> [Flag |-> wire.Flag, Data |-> wire.Data]]
      [] wire.enc = "badtail" ->
            [err |-> "proto: unexpected EOF", packet |-> [Flag |-> wire.Flag, Data |-> wire.Data]]
      [] OTHER -> [err |-> "proto: cannot parse", packet |-> ZeroPacket]

\* config.WrapWithFlag(flag, data): the envelope GeneralPacket{Flag, Data}
WrapWithFlag(flag, data) == [Flag |-> flag, Data |-> data]

\* helpers.MD5Hash: a digest, a function of its argument alone
MD5Hash(bytes) == <<"md5">> \o bytes

\* bytes.Compare(a, b): 0 iff the byte strings are equal (nil equals empty)
BytesCompare(a, b) == IF a = b THEN 0 ELSE 1

(***************************************************************************)
(* Faults of the environment: at most one operation of a handler run      *)
(* fails, the n-th call of the named operation.                           *)
(***************************************************************************)
\* the file names of an inbox, in the order ioutil.ReadDir lists them (sorted
\* by name): the one name StoreMessage is called with, and a file that got
\* into the directory by other means
FileOrder == << <<"TMP_MESSAGE_ID", ".txt">>, <<"older", ".txt">> >>

NoFault == [op |-> "none", n |-> 0]

FaultOps == {"dirExists", "mkdir", "create", "write", "readDir", "readFile", "dial"}

\* the inboxes of the provider run hold at most one file: first calls only
Faults == {NoFault} \cup [op : FaultOps, n : {1}]

Fails(fault, op, n) == fault.op = op /\ fault.n = n

(***************************************************************************)
(* What a handler run reports: the new client table and file system, the  *)
(* error it returns, the envelopes it wrote to connections, the addresses *)
(* it dialled, and what it decided on the way.                            *)
(***************************************************************************)
NoInfo ==
    [kind |-> "NONE", id |-> "", token |-> <<>>, registered |-> FALSE,
     auth |-> FALSE, fetched |-> FALSE, signal |-> "",
     unwrapped |-> FALSE, innerFlag |-> <<>>, storeCalled |-> FALSE,
     fileWritten |-> FALSE]

Res(ac, fs, err, sends, dials, info) ==
    [ac |-> ac, fs |-> fs, err |-> err, sends |-> sends, dials |-> dials, info |-> info]

\* net.Dial to host "" and port "" reaches nobody
Unreachable(address) == address \in {<<>>, Address("", "")}

(***************************************************************************)
(* Send: dial the address, write the packet on the connection, close it.  *)
(* The result of conn.Write is ignored.                                   *)
(***************************************************************************)
Send(packet, address, fault, n) ==
    IF Fails(fault, "dial", n) \/ Unreachable(address)
    THEN [err |-> "dial error", sends |-> <<>>, dials |-> <<address>>]
    ELSE [err |-> Nil, sends |-> <<[to |-> address, pkt |-> packet]>>,
          dials |-> <<address>>]

\* helpers.DirExists(./inboxes/<id>)
DirExists(fs, id, fault) ==
    IF Fails(fault, "dirExists", 1)
    THEN [exists |-> FALSE, err |-> "stat error"]
    ELSE [exists |-> id \in DOMAIN fs, err |-> Nil]

(***************************************************************************)
(* RegisterNewClient                                                      *)
(***************************************************************************)
RegisterNewClient(ac, fs, clientBytes, fault) ==
    LET u == Unmarshal(clientBytes, "ClientConfig")
        clientConf == u.msg
    IN  IF u.err # Nil
        THEN [ac |-> ac, fs |-> fs, token |-> <<>>, address |-> <<>>, err |-> u.err]
        ELSE
        LET token == MD5Hash(<<"TMP_Token", clientConf.Id>>)
            record == [Id |-> clientConf.Id, Host |-> clientConf.Host,
                       Port |-> clientConf.Port, PubKey |-> clientConf.PubKey,
                       Token |-> token]
            ac2 == Put(ac, clientConf.Id, record)
            address == Address(clientConf.Host, clientConf.Port)
            d == DirExists(fs, clientConf.Id, fault)
        IN  IF d.err # Nil
            THEN [ac |-> ac2, fs |-> fs, token |-> <<>>, address |-> <<>>, err |-> d.err]
            ELSE IF d.exists = FALSE
            THEN IF Fails(fault, "mkdir", 1)
                 THEN [ac |-> ac2, fs |-> fs, token |-> <<>>, address |-> <<>>,
                       err |-> "mkdir error"]
                 ELSE [ac |-> ac2, fs |-> Put(fs, clientConf.Id, EmptyMap),
                       token |-> token, address |-> address, err |-> Nil]
            ELSE [ac |-> ac2, fs |-> fs, token |-> token, address |-> address, err |-> Nil]

(***************************************************************************)
(* HandleAssignRequest                                                    *)
(***************************************************************************)
HandleAssignRequest(ac, fs, packet, fault) ==
    LET r == RegisterNewClient(ac, fs, packet, fault)
        u == Unmarshal(packet, "ClientConfig")
        info == [NoInfo EXCEPT !.kind = "ASSIGN",
                               !.id = IF u.err = Nil THEN u.msg.Id ELSE "",
                               !.registered = (r.err = Nil),
                               !.token = r.token]
    IN  IF r.err # Nil
        THEN Res(r.ac, r.fs, r.err, <<>>, <<>>, info)
        ELSE LET tokenBytes == WrapWithFlag(TOKEN_FLAG, r.token)
                 s == Send(tokenBytes, r.address, fault, 1)
             IN  Res(r.ac, r.fs, s.err, s.sends, s.dials, info)

(***************************************************************************)
(* Faulty variant of AuthenticateUser, used to test the properties: it    *)
(* only looks whether the client has a record.                            *)
(***************************************************************************)
AuthenticateUser_AnyToken(ac, clientId, clientToken) ==
    clientId \in DOMAIN ac

(***************************************************************************)
(* AuthenticateUser                                                       *)
(***************************************************************************)
AuthenticateUser(ac, clientId, clientToken) ==
    BytesCompare(Lookup(ac, clientId).Token, clientToken) = 0

(***************************************************************************)
(* FetchMessages: ioutil.ReadDir lists the files sorted by name; each is  *)
(* read and sent to the address of the client's current record.  Nothing  *)
(* is removed from the inbox.                                             *)
(***************************************************************************)
DirFiles(dir) == SelectSeq(FileOrder, LAMBDA name : name \in DOMAIN dir)

RECURSIVE FetchLoop(_, _, _, _, _, _, _)
FetchLoop(ac, dir, clientId, files, i, fault, acc) ==
    IF i > Len(files)
    THEN [signal |-> "SI", err |-> Nil, sends |-> acc.sends, dials |-> acc.dials]
    ELSE IF Fails(fault, "readFile", i)
    THEN [signal |-> "", err |-> "read error", sends |-> acc.sends, dials |-> acc.dials]
    ELSE LET dat == dir[files[i]]
             address == Address(Lookup(ac, clientId).Host, Lookup(ac, clientId).Port)
             msgBytes == WrapWithFlag(COMM_FLAG, dat)
             s == Send(msgBytes, address, fault, i)
             acc2 == [sends |-> acc.sends \o s.sends, dials |-> acc.dials \o s.dials]
         IN  IF s.err # Nil
             THEN [signal |-> "", err |-> s.err, sends |-> acc2.sends, dials |-> acc2.dials]
             ELSE FetchLoop(ac, dir, clientId, files, i + 1, fault, acc2)

(***************************************************************************)
(* Faulty variant of FetchMessages, used to test the properties: it does  *)
(* not look whether the inbox is empty.                                   *)
(***************************************************************************)
FetchMessages_NoEmptyCheck(ac, fs, clientId, fault) ==
    LET d == DirExists(fs, clientId, fault)
        none == [sends |-> <<>>, dials |-> <<>>]
    IN  IF d.err # Nil
        THEN [signal |-> "", err |-> d.err, sends |-> <<>>, dials |-> <<>>]
        ELSE IF d.exists = FALSE
        THEN [signal |-> "NI", err |-> Nil, sends |-> <<>>, dials |-> <<>>]
        ELSE IF Fails(fault, "readDir", 1)
        THEN [signal |-> "", err |-> "readdir error", sends |-> <<>>, dials |-> <<>>]
        ELSE FetchLoop(ac, fs[clientId], clientId, DirFiles(fs[clientId]), 1, fault, none)

(***************************************************************************)
(* FetchMessages                                                          *)
(***************************************************************************)
FetchMessages(ac, fs, clientId, fault) ==
    LET d == DirExists(fs, clientId, fault)
        none == [sends |-> <<>>, dials |-> <<>>]
    IN  IF d.err # Nil
        THEN [signal |-> "", err |-> d.err, sends |-> <<>>, dials |-> <<>>]
        ELSE IF d.exists = FALSE
        THEN [signal |-> "NI", err |-> Nil, sends |-> <<>>, dials |-> <<>>]
        ELSE IF Fails(fault, "readDir", 1)
        THEN [signal |-> "", err |-> "readdir error", sends |-> <<>>, dials |-> <<>>]
        ELSE IF Len(DirFiles(fs[clientId])) = 0
        THEN [signal |-> "EI", err |-> Nil, sends |-> <<>>, dials |-> <<>>]
        ELSE FetchLoop(ac, fs[clientId], clientId, DirFiles(fs[clientId]), 1, fault, none)

(***************************************************************************)
(* Faulty variant of HandlePullRequest, used to test the properties: it   *)
(* fetches before it looks at the result of the authentication.           *)
(***************************************************************************)
HandlePullRequest_FetchBeforeAuth(ac, fs, rqsBytes, fault) ==
    LET u == Unmarshal(rqsBytes, "PullRequest")
        request == u.msg
        info == [NoInfo EXCEPT !.kind = "PULL"]
    IN  IF u.err # Nil
        THEN Res(ac, fs, u.err, <<>>, <<>>, info)
        ELSE
        LET info2 == [info EXCEPT !.id = request.ClientId, !.token = request.Token,
                                  !.fetched = TRUE]
            f == FetchMessages(ac, fs, request.ClientId, fault)
        IN  IF AuthenticateUser(ac, request.ClientId, request.Token) = TRUE
            THEN Res(ac, fs, f.err, f.sends, f.dials,
                     [info2 EXCEPT !.auth = TRUE, !.signal = f.signal])
            ELSE Res(ac, fs, "authentication went wrong", f.sends, f.dials, info2)

(***************************************************************************)
(* HandlePullRequest                                                      *)
(***************************************************************************)
HandlePullRequest(ac, fs, rqsBytes, fault) ==
    LET u == Unmarshal(rqsBytes, "PullRequest")
        request == u.msg
        info == [NoInfo EXCEPT !.kind = "PULL"]
    IN  IF u.err # Nil
        THEN Res(ac, fs, u.err, <<>>, <<>>, info)
        ELSE
        LET info2 == [info EXCEPT !.id = request.ClientId, !.token = request.Token]
        IN  IF AuthenticateUser(ac, request.ClientId, request.Token) = TRUE
            THEN LET f == FetchMessages(ac, fs, request.ClientId, fault)
                 IN  Res(ac, fs, f.err, f.sends, f.dials,
                         [info2 EXCEPT !.auth = TRUE, !.fetched = TRUE,
                                       !.signal = f.signal])
            ELSE Res(ac, fs, "authentication went wrong", <<>>, <<>>, info2)

(***************************************************************************)
(* Faulty variant of StoreMessage, used to test the properties: it makes  *)
(* the inbox directory when it is missing.                                *)
(***************************************************************************)
StoreMessage_MkdirAll(fs, message, inboxId, messageId, fault) ==
    LET fileName == <<messageId, ".txt">>
        fs2 == IF inboxId \in DOMAIN fs THEN fs ELSE Put(fs, inboxId, EmptyMap)
    IN  IF Fails(fault, "create", 1)
        THEN [fs |-> fs, err |-> "create error", written |-> FALSE]
        ELSE IF Fails(fault, "write", 1)
        THEN [fs |-> [fs2 EXCEPT ![inboxId] = Put(@, fileName, "")],
              err |-> "write error", written |-> TRUE]
        ELSE [fs |-> [fs2 EXCEPT ![inboxId] = Put(@, fileName, message)],
              err |-> Nil, written |-> TRUE]

(***************************************************************************)
(* StoreMessage: os.Create makes or truncates ./inboxes/<id>/<msgid>.txt  *)
(* and fails when the directory is missing; a failed write leaves the     *)
(* truncated file.                                                        *)
(***************************************************************************)
StoreMessage(fs, message, inboxId, messageId, fault) ==
    LET fileName == <<messageId, ".txt">>
    IN  IF inboxId \notin DOMAIN fs \/ Fails(fault, "create", 1)
        THEN [fs |-> fs, err |-> "create error", written |-> FALSE]
        ELSE IF Fails(fault, "write", 1)
        THEN [fs |-> [fs EXCEPT ![inboxId] = Put(@, fileName, "")],
              err |-> "write error", written |-> TRUE]
        ELSE [fs |-> [fs EXCEPT ![inboxId] = Put(@, fileName, message)],
              err |-> Nil, written |-> TRUE]

(***************************************************************************)
(* ForwardPacket                                                          *)
(***************************************************************************)
ForwardPacket(sphinxPacket, address, fault) ==
    LET packetBytes == WrapWithFlag(COMM_FLAG, sphinxPacket)
    IN  Send(packetBytes, address, fault, 1)

(***************************************************************************)
(* ProcessPacket (node.Mix): one unwrap of the onion.  It yields the      *)
(* inner packet, the next hop, the inner flag and an error on the four    *)
(* channels ReceivedPacket reads.  The error is set when the MAC does not *)
(* verify or the packet does not parse; what the other three channels     *)
(* carry then is not promised, and is taken to be what the unverified     *)
(* packet holds.                                                          *)
(***************************************************************************)
ProcessPacket(packet) ==
    IF packet.type = "Sphinx"
    THEN [dePacket |-> packet.Inner, nextHop |-> packet.Hop, flag |-> packet.Flag,
          err |-> IF packet.mac = "ok" THEN Nil ELSE "sphinx: unwrap failed"]
    ELSE [dePacket |-> "", nextHop |-> [Id |-> "", Address |-> <<>>], flag |-> <<>>,
          err |-> "sphinx: unwrap failed"]

(***************************************************************************)
(* Faulty variants of ReceivedPacket, used to test the properties: one    *)
(* with the two cases of the switch exchanged, one without the error      *)
(* check before the switch.                                               *)
(***************************************************************************)
ReceivedPacket_Swapped(ac, fs, packet, fault) ==
    LET r == ProcessPacket(packet)
        info == [NoInfo EXCEPT !.kind = "COMM", !.unwrapped = (r.err = Nil),
                               !.innerFlag = IF r.err = Nil THEN r.flag ELSE <<>>,
                               !.id = IF r.err = Nil /\ r.flag = FinalFlag
                                      THEN r.nextHop.Id ELSE ""]
    IN  IF r.err # Nil
        THEN Res(ac, fs, r.err, <<>>, <<>>, info)
        ELSE CASE r.flag = FinalFlag ->
                    LET s == ForwardPacket(r.dePacket, r.nextHop.Address, fault)
                    IN  Res(ac, fs, s.err, s.sends, s.dials, info)
               [] r.flag = RelayFlag ->
                    LET s == StoreMessage(fs, r.dePacket, r.nextHop.Id,
                                          "TMP_MESSAGE_ID", fault)
                    IN  Res(ac, s.fs, s.err, <<>>, <<>>,
                            [info EXCEPT !.storeCalled = TRUE,
                                         !.fileWritten = s.written])
               [] OTHER -> Res(ac, fs, Nil, <<>>, <<>>, info)

ReceivedPacket_NoErrCheck(ac, fs, packet, fault) ==
    LET r == ProcessPacket(packet)
        info == [NoInfo EXCEPT !.kind = "COMM", !.unwrapped = (r.err = Nil),
                               !.innerFlag = IF r.err = Nil THEN r.flag ELSE <<>>,
                               !.id = IF r.err = Nil /\ r.flag = FinalFlag
                                      THEN r.nextHop.Id ELSE ""]
    IN  CASE r.flag = RelayFlag ->
                LET s == ForwardPacket(r.dePacket, r.nextHop.Address, fault)
                IN  Res(ac, fs, IF s.err # Nil THEN s.err ELSE r.err, s.sends, s.dials,
                        info)
          [] r.flag = FinalFlag ->
                LET s == StoreMessage(fs, r.dePacket, r.nextHop.Id,
                                      "TMP_MESSAGE_ID", fault)
                IN  Res(ac, s.fs, IF s.err # Nil THEN s.err ELSE r.err, <<>>, <<>>,
                        [info EXCEPT !.storeCalled = TRUE,
                                     !.fileWritten = s.written])
          [] OTHER -> Res(ac, fs, r.err, <<>>, <<>>, info)

(***************************************************************************)
(* ReceivedPacket                                                         *)
(***************************************************************************)
ReceivedPacket(ac, fs, packet, fault) ==
    LET r == ProcessPacket(packet)
        info == [NoInfo EXCEPT !.kind = "COMM", !.unwrapped = (r.err = Nil),
                               !.innerFlag = IF r.err = Nil THEN r.flag ELSE <<>>,
                               !.id = IF r.err = Nil /\ r.flag = FinalFlag
                                      THEN r.nextHop.Id ELSE ""]
    IN  IF r.err # Nil
        THEN Res(ac, fs, r.err, <<>>, <<>>, info)
        ELSE CASE r.flag = RelayFlag ->
                    LET s == ForwardPacket(r.dePacket, r.nextHop.Address, fault)
                    IN  Res(ac, fs, s.err, s.sends, s.dials, info)
               [] r.flag = FinalFlag ->
                    LET s == StoreMessage(fs, r.dePacket, r.nextHop.Id,
                                          "TMP_MESSAGE_ID", fault)
                    IN  Res(ac, s.fs, s.err, <<>>, <<>>,
                            [info EXCEPT !.storeCalled = TRUE,
                                         !.fileWritten = s.written])
               [] OTHER -> Res(ac, fs, Nil, <<>>, <<>>, info)

(***************************************************************************)
(* Inputs: what a connection carries.                                     *)
(***************************************************************************)
TokenOf(id) == MD5Hash(<<"TMP_Token", id>>)

SphinxPackets ==
    {SphinxBytes("bad", RelayFlag, "mix1", MixAddress, InnerPacket),
     SphinxBytes("ok", RelayFlag, "mix1", MixAddress, InnerPacket),
     SphinxBytes("ok", OtherFlag, "mix1", MixAddress, InnerPacket)}
    \cup {SphinxBytes("ok", FinalFlag, "a", Address("h1", ClientPort), m) :
            m \in Payloads}
    \cup {SphinxBytes("ok", FinalFlag, "b", Address("h1", ClientPort), "m1")}

AssignEnvelopes ==
    {WrapWithFlag(ASSIGNE_FLAG, ClientConfigBytes("a", h)) : h \in Hosts}
    \cup {WrapWithFlag(ASSIGNE_FLAG, ClientConfigBytes("b", "h1")),
          WrapWithFlag(ASSIGNE_FLAG, Garbage)}

PullEnvelopes ==
    {WrapWithFlag(PULL_FLAG, PullRequestBytes("a", TokenOf("a"))),
     WrapWithFlag(PULL_FLAG, PullRequestBytes("a", TokenOf("b"))),
     WrapWithFlag(PULL_FLAG, PullRequestBytes("b", TokenOf("b"))),
     WrapWithFlag(PULL_FLAG, PullRequestBytes("b", <<>>)),
     WrapWithFlag(PULL_FLAG, Garbage)}

Envelopes ==
    AssignEnvelopes \cup PullEnvelopes
    \cup {WrapWithFlag(COMM_FLAG, sp) : sp \in SphinxPackets}
    \cup {WrapWithFlag(OtherFlag, EmptyData)}

\* envelopes that also arrive followed by bytes that do not parse
BadTailEnvelopes ==
    {WrapWithFlag(ASSIGNE_FLAG, ClientConfigBytes("a", "h1")),
     WrapWithFlag(PULL_FLAG, PullRequestBytes("a", TokenOf("a"))),
     WrapWithFlag(OtherFlag, EmptyData)}

NoWire == [enc |-> "none", Flag |-> <<>>, Data |-> EmptyData]

Conns ==
    {[read |-> "err", wire |-> NoWire]}
    \cup {[read |-> "ok", wire |-> [enc |-> "ok", Flag |-> env.Flag, Data |-> env.Data]] :
            env \in Envelopes}
    \cup {[read |-> "ok", wire |-> [enc |-> "badtail", Flag |-> env.Flag,
                                    Data |-> env.Data]] : env \in BadTailEnvelopes}
    \cup {[read |-> "ok", wire |-> [enc |-> "garbage", Flag |-> <<>>, Data |-> EmptyData]]}

NoConn == [read |-> "done", wire |-> NoWire]

\* ./inboxes persists across restarts: an inbox of an earlier run may exist
InitialInboxes ==
    {EmptyMap,
     [id \in {"b"} |-> [name \in {FileOrder[1]} |-> StalePayload]]}

FileNames == {FileOrder[i] : i \in 1..Len(FileOrder)}

(***************************************************************************)
(* NewProviderServer                                                      *)
(***************************************************************************)
\* no call of the helper is in progress; the client process is not part of
\* the provider run
NoCall == [op |-> "none"]

NoClient == [running |-> FALSE, exit |-> "none", iters |-> 0, tasks |-> <<>>]

Init ==
    /\ assignedClients = EmptyMap
    /\ inboxes \in InitialInboxes
    /\ lpc = "accept"
    /\ iters = 0
    /\ tasks = <<>>
    /\ crashed = FALSE
    /\ logged = Nil
    /\ lastOp = [info |-> NoInfo, err |-> Nil, sends |-> <<>>, dials |-> <<>>]
    /\ issued = [id \in ClientIds |-> <<>>]
    /\ stored = [id \in ClientIds |-> <<>>]
    /\ delivered = [id \in ClientIds |-> [name \in FileNames |-> 0]]
    /\ fetch = NoCall
    /\ sample = NoCall
    /\ client = NoClient

(***************************************************************************)
(* ListenForIncomingConnections                                           *)
(***************************************************************************)
\* p.listener.Accept() fails: the error is logged, the loop goes on
AcceptError ==
    /\ ~crashed
    /\ lpc = "accept"
    /\ iters < MaxConns
    /\ iters' = iters + 1
    /\ logged' = "error"
    /\ UNCHANGED <<fetch, sample, client, assignedClients, inboxes, lpc, tasks, crashed, lastOp, issued,
                   stored, delivered>>

\* Accept succeeds: errs := make(chan error, 1); go p.HandleConnection(conn, errs)
AcceptConn(c) ==
    /\ ~crashed
    /\ lpc = "accept"
    /\ iters < MaxConns
    /\ iters' = iters + 1
    /\ tasks' = Append(tasks, [pc |-> "read", conn |-> c, packet |-> ZeroPacket,
                               buf |-> <<>>, val |-> Nil])
    /\ lpc' = "wait"
    /\ UNCHANGED <<fetch, sample, client, assignedClients, inboxes, crashed, logged, lastOp, issued,
                   stored, delivered>>

\* err = <- errs: the loop takes one value from the newest handler's channel
ReceiveErr ==
    /\ ~crashed
    /\ lpc = "wait"
    /\ tasks[Len(tasks)].buf # <<>>
    /\ logged' = IF tasks[Len(tasks)].buf[1] # Nil THEN "error" ELSE Nil
    /\ tasks' = [tasks EXCEPT ![Len(tasks)].buf = <<>>]
    /\ lpc' = "accept"
    /\ UNCHANGED <<fetch, sample, client, assignedClients, inboxes, iters, crashed, lastOp, issued,
                   stored, delivered>>

(***************************************************************************)
(* HandleConnection.  No error path returns: after errs <- err the        *)
(* goroutine goes on to the next statement.  errs holds one value; a send *)
(* waits while it is full.                                                *)
(***************************************************************************)
\* conn.Read and proto.Unmarshal, each followed by errs <- err on error
ReadPacket(t) ==
    /\ ~crashed
    /\ tasks[t].pc = "read"
    /\ LET c == tasks[t].conn
           u == UnmarshalPacket(IF c.read = "err" THEN NoWire ELSE c.wire)
           e == IF c.read = "err" THEN "read error" ELSE u.err
       IN  tasks' = [tasks EXCEPT ![t] =
                        [pc |-> "switch", conn |-> NoConn, packet |-> u.packet,
                         buf |-> IF e # Nil THEN <<e>> ELSE <<>>, val |-> Nil]]
    /\ UNCHANGED <<fetch, sample, client, assignedClients, inboxes, lpc, iters, crashed, logged, lastOp,
                   issued, stored, delivered>>

\* the goroutine's position after a case of the switch returned err
AfterHandler(t, err) ==
    [tasks EXCEPT ![t] = [pc |-> IF err # Nil THEN "send" ELSE "final",
                          conn |-> NoConn, packet |-> ZeroPacket,
                          buf |-> tasks[t].buf, val |-> err]]

Observe(r) == [info |-> r.info, err |-> r.err, sends |-> r.sends, dials |-> r.dials]

\* case ASSIGNE_FLAG
HandleAssign(t) ==
    /\ ~crashed
    /\ tasks[t].pc = "switch"
    /\ tasks[t].packet.Flag = ASSIGNE_FLAG
    /\ \E fault \in Faults :
         LET r == HandleAssignRequest(assignedClients, inboxes, tasks[t].packet.Data, fault)
         IN  /\ assignedClients' = r.ac
             /\ inboxes' = r.fs
             /\ tasks' = AfterHandler(t, r.err)
             /\ lastOp' = Observe(r)
             /\ issued' = IF r.info.registered
                          THEN [issued EXCEPT ![r.info.id] = r.info.token]
                          ELSE issued
    /\ UNCHANGED <<fetch, sample, client, lpc, iters, crashed, logged, stored, delivered>>

\* case COMM_FLAG
HandleComm(t) ==
    /\ ~crashed
    /\ tasks[t].pc = "switch"
    /\ tasks[t].packet.Flag = COMM_FLAG
    /\ \E fault \in Faults :
         LET r == ReceivedPacket(assignedClients, inboxes, tasks[t].packet.Data, fault)
         IN  /\ assignedClients' = r.ac
             /\ inboxes' = r.fs
             /\ tasks' = AfterHandler(t, r.err)
             /\ lastOp' = Observe(r)
             /\ stored' = IF r.info.storeCalled /\ r.err = Nil
                          THEN [stored EXCEPT ![r.info.id] =
                                   Append(@, ProcessPacket(tasks[t].packet.Data).dePacket)]
                          ELSE stored
             /\ delivered' = IF r.info.fileWritten
                             THEN [delivered EXCEPT ![r.info.id][FileOrder[1]] = 0]
                             ELSE delivered
    /\ UNCHANGED <<fetch, sample, client, lpc, iters, crashed, logged, issued>>

\* case PULL_FLAG
HandlePull(t) ==
    /\ ~crashed
    /\ tasks[t].pc = "switch"
    /\ tasks[t].packet.Flag = PULL_FLAG
    /\ \E fault \in Faults :
         LET r == HandlePullRequest(assignedClients, inboxes, tasks[t].packet.Data, fault)
             files == IF r.info.fetched /\ r.info.id \in DOMAIN inboxes
                      THEN DirFiles(inboxes[r.info.id]) ELSE <<>>
         IN  /\ assignedClients' = r.ac
             /\ inboxes' = r.fs
             /\ tasks' = AfterHandler(t, r.err)
             /\ lastOp' = Observe(r)
             /\ delivered' =
                  IF Len(r.sends) = 0 THEN delivered
                  ELSE [delivered EXCEPT ![r.info.id] =
                          [name \in FileNames |->
                             IF \E i \in 1..Len(r.sends) : files[i] = name
                             THEN @[name] + 1 ELSE @[name]]]
             /\ stored' = IF r.info.fetched
                          THEN [stored EXCEPT ![r.info.id] = <<>>]
                          ELSE stored
    /\ UNCHANGED <<fetch, sample, client, lpc, iters, crashed, logged, issued>>

\* default: the packet is dropped and errs <- nil
HandleDefault(t) ==
    /\ ~crashed
    /\ tasks[t].pc = "switch"
    /\ tasks[t].packet.Flag \notin {ASSIGNE_FLAG, COMM_FLAG, PULL_FLAG}
    /\ tasks' = [tasks EXCEPT ![t] = [pc |-> "send", conn |-> NoConn,
                                      packet |-> ZeroPacket, buf |-> tasks[t].buf,
                                      val |-> Nil]]
    /\ lastOp' = [info |-> [NoInfo EXCEPT !.kind = "DROP"], err |-> Nil,
                  sends |-> <<>>, dials |-> <<>>]
    /\ UNCHANGED <<fetch, sample, client, assignedClients, inboxes, lpc, iters, crashed, logged, issued,
                   stored, delivered>>

\* errs <- err inside a case of the switch (errs <- nil in the default case)
SendErr(t) ==
    /\ ~crashed
    /\ tasks[t].pc = "send"
    /\ tasks[t].buf = <<>>
    /\ tasks' = [tasks EXCEPT ![t].pc = "final", ![t].buf = <<tasks[t].val>>,
                              ![t].val = Nil]
    /\ UNCHANGED <<fetch, sample, client, assignedClients, inboxes, lpc, iters, crashed, logged, lastOp,
                   issued, stored, delivered>>

\* the last statement, errs <- nil; then the deferred conn.Close() runs
SendFinal(t) ==
    /\ ~crashed
    /\ tasks[t].pc = "final"
    /\ tasks[t].buf = <<>>
    /\ tasks' = [tasks EXCEPT ![t].pc = "done", ![t].buf = <<Nil>>]
    /\ UNCHANGED <<fetch, sample, client, assignedClients, inboxes, lpc, iters, crashed, logged, lastOp,
                   issued, stored, delivered>>

(***************************************************************************)
(* assignedClients is a plain Go map shared by all handler goroutines.    *)
(* Two goroutines that are both about to run a handler that uses the map, *)
(* one of them registering, access it with no ordering between them; the  *)
(* Go runtime may detect this and end the process with a fatal error      *)
(* ("concurrent map writes", "concurrent map read and map write").        *)
(***************************************************************************)
WritesMap(t) ==
    /\ tasks[t].pc = "switch"
    /\ tasks[t].packet.Flag = ASSIGNE_FLAG
    /\ Unmarshal(tasks[t].packet.Data, "ClientConfig").err = Nil

ReadsMap(t) ==
    /\ tasks[t].pc = "switch"
    /\ tasks[t].packet.Flag = PULL_FLAG
    /\ Unmarshal(tasks[t].packet.Data, "PullRequest").err = Nil

MapRace ==
    \E t1, t2 \in 1..Len(tasks) :
        t1 # t2 /\ WritesMap(t1) /\ (WritesMap(t2) \/ ReadsMap(t2))

ConcurrentMapAccess ==
    /\ ~crashed
    /\ MapRace
    /\ crashed' = TRUE
    /\ UNCHANGED <<fetch, sample, client, assignedClients, inboxes, lpc, iters, tasks, logged, lastOp,
                   issued, stored, delivered>>

Next ==
    \/ AcceptError
    \/ \E c \in Conns : AcceptConn(c)
    \/ ReceiveErr
    \/ \E t \in 1..Len(tasks) : ReadPacket(t)
    \/ \E t \in 1..Len(tasks) : HandleAssign(t)
    \/ \E t \in 1..Len(tasks) : HandleComm(t)
    \/ \E t \in 1..Len(tasks) : HandlePull(t)
    \/ \E t \in 1..Len(tasks) : HandleDefault(t)
    \/ \E t \in 1..Len(tasks) : SendErr(t)
    \/ \E t \in 1..Len(tasks) : SendFinal(t)
    \/ ConcurrentMapAccess

Spec == Init /\ [][Next]_vars

(***************************************************************************)
(* Properties.                                                            *)
(***************************************************************************)
AllTokens == {TokenOf(id) : id \in ClientIds} \cup {<<>>, <<"bad">>}

\* goroutine t runs the case of the switch for `flag` in this step
HandlerStep(t, flag) ==
    /\ tasks[t].pc = "switch"
    /\ tasks'[t].pc # "switch"
    /\ tasks[t].packet.Flag = flag

\* the files of all inboxes as (id, name, content) triples
Files(fs) ==
    UNION {{<<id, name, fs[id][name]>> : name \in DOMAIN fs[id]} : id \in DOMAIN fs}

\* payload is the content of some file of the inbox of id
InInbox(fs, id, payload) ==
    /\ id \in DOMAIN fs
    /\ \E name \in DOMAIN fs[id] : fs[id][name] = payload

(***************************************************************************)
(* C1.  After a registration of id that succeeded and returned token t    *)
(* (the latest one for id), AuthenticateUser(id, t) is true and           *)
(* AuthenticateUser(id, t') is false for every other token t'.            *)
(***************************************************************************)
C1_AuthAfterRegister ==
    \A id \in ClientIds :
        issued[id] # <<>> =>
            \A tok \in AllTokens :
                AuthenticateUser(assignedClients, id, tok) = (tok = issued[id])

\* a client registered, then pulled with the token it was given and was let in
C1_Witness ==
    /\ lastOp.info.kind = "PULL"
    /\ lastOp.info.id \in ClientIds
    /\ issued[lastOp.info.id] # <<>>
    /\ lastOp.info.token = issued[lastOp.info.id]
    /\ lastOp.info.auth

(***************************************************************************)
(* C2.  Re-registration invalidates the prior token: when id, holding     *)
(* token t1 from a registration, registers again and is given t2, a PULL  *)
(* for id presenting t1 then fails authentication and a PULL presenting   *)
(* t2 passes it.                                                          *)
(***************************************************************************)
C2_ReRegistrationInvalidates ==
    [][\A t \in 1..Len(tasks) : \A id \in ClientIds :
          (/\ HandlerStep(t, ASSIGNE_FLAG)
           /\ lastOp'.info.registered
           /\ lastOp'.info.id = id
           /\ issued[id] # <<>>)
          => LET t1 == issued[id]
                 t2 == lastOp'.info.token
                 pull1 == HandlePullRequest(assignedClients', inboxes',
                                            PullRequestBytes(id, t1), NoFault)
                 pull2 == HandlePullRequest(assignedClients', inboxes',
                                            PullRequestBytes(id, t2), NoFault)
             IN  /\ pull1.info.auth = FALSE
                 /\ pull2.info.auth = TRUE]_vars

(***************************************************************************)
(* C3.  The inbox is append-only between deliveries: a store never        *)
(* removes or overwrites a payload stored earlier, so the inbox of a      *)
(* registered recipient holds every payload that was stored for it since  *)
(* its last fetch, one file for each.                                     *)
(***************************************************************************)
C3_InboxAppendOnly ==
    \A id \in ClientIds :
        (id \in DOMAIN assignedClients /\ stored[id] # <<>>) =>
            /\ id \in DOMAIN inboxes
            /\ Cardinality(DOMAIN inboxes[id]) >= Len(stored[id])
            /\ \A i \in 1..Len(stored[id]) : InInbox(inboxes, id, stored[id][i])

(***************************************************************************)
(* C4.  Inbox conservation: a message stored by StoreMessage is sent to   *)
(* the client at most once, and a stored message whose send completed     *)
(* without error is no longer in the inbox after the PULL that sent it.   *)
(***************************************************************************)
C4_InboxConservation ==
    /\ \A id \in ClientIds : \A name \in FileNames :
          (/\ id \in DOMAIN inboxes
           /\ name \in DOMAIN inboxes[id]
           /\ inboxes[id][name] \in Payloads) => delivered[id][name] <= 1
    /\ (lastOp.info.kind = "PULL" /\ lastOp.info.fetched) =>
          \A i \in 1..Len(lastOp.sends) :
              ~(/\ lastOp.sends[i].pkt.Data \in Payloads
                /\ lastOp.info.id \in DOMAIN inboxes
                /\ FileOrder[i] \in DOMAIN inboxes[lastOp.info.id]
                /\ lastOp.sends[i].pkt.Data = inboxes[lastOp.info.id][FileOrder[i]])

(***************************************************************************)
(* C5.  A PULL for a registered client that presents a token other than   *)
(* the stored one fails authentication: HandlePullRequest returns an      *)
(* error, FetchMessages is not run, nothing is dialled or sent, and the   *)
(* inboxes and assignedClients are unchanged.                             *)
(***************************************************************************)
C5_WrongTokenPull ==
    [][\A t \in 1..Len(tasks) :
          LET u == Unmarshal(tasks[t].packet.Data, "PullRequest")
          IN  (/\ HandlerStep(t, PULL_FLAG)
               /\ u.err = Nil
               /\ u.msg.ClientId \in DOMAIN assignedClients
               /\ u.msg.Token # assignedClients[u.msg.ClientId].Token)
              => /\ lastOp'.err = "authentication went wrong"
                 /\ tasks'[t].val = lastOp'.err
                 /\ lastOp'.info.fetched = FALSE
                 /\ lastOp'.sends = <<>>
                 /\ lastOp'.dials = <<>>
                 /\ inboxes' = inboxes
                 /\ assignedClients' = assignedClients]_vars

\* a registered client pulled with another client's token and was refused
C5_Witness ==
    /\ lastOp.info.kind = "PULL"
    /\ lastOp.info.id \in DOMAIN assignedClients
    /\ lastOp.info.token # assignedClients[lastOp.info.id].Token
    /\ lastOp.err = "authentication went wrong"

(***************************************************************************)
(* C6.  The token proves prior registration: a PULL for a client id that  *)
(* has no record in assignedClients fails authentication whatever token   *)
(* it presents, the empty one included, and does not reach FetchMessages. *)
(***************************************************************************)
C6_TokenProvesRegistration ==
    (/\ lastOp.info.kind = "PULL"
     /\ lastOp.info.id \in ClientIds
     /\ lastOp.info.id \notin DOMAIN assignedClients)
    => /\ lastOp.info.auth = FALSE
       /\ lastOp.info.fetched = FALSE

(***************************************************************************)
(* C7.  Dispatch of a COMM packet that unwraps without error.             *)
(***************************************************************************)
\* the envelope ForwardPacket writes for the unwrapped packet r
ForwardEnvelope(r) ==
    [to |-> r.nextHop.Address, pkt |-> WrapWithFlag(COMM_FLAG, r.dePacket)]

C8_UnwrapErrorDrops ==
    [][\A t \in 1..Len(tasks) :
          LET r == ProcessPacket(tasks[t].packet.Data)
          IN  (HandlerStep(t, COMM_FLAG) /\ r.err # Nil)
              => /\ lastOp'.dials = <<>>
                 /\ lastOp'.sends = <<>>
                 /\ lastOp'.info.storeCalled = FALSE
                 /\ inboxes' = inboxes
                 /\ assignedClients' = assignedClients]_vars

\* a packet whose MAC does not verify was handled and reported
C8_Witness ==
    /\ lastOp.info.kind = "COMM"
    /\ lastOp.info.unwrapped = FALSE
    /\ lastOp.err = "sphinx: unwrap failed"
    /\ \E t \in 1..Len(tasks) : tasks[t].pc = "send" /\ tasks[t].val = lastOp.err

(***************************************************************************)
(* C9.  Storing a message for a recipient whose inbox does not exist      *)
(* fails: StoreMessage returns an error, no inbox is created and no       *)
(* payload is stored in any inbox.                                        *)
(***************************************************************************)
C9_UnknownRecipient ==
    [][\A t \in 1..Len(tasks) :
          LET r == ProcessPacket(tasks[t].packet.Data)
          IN  (/\ HandlerStep(t, COMM_FLAG)
               /\ r.err = Nil
               /\ r.flag = FinalFlag
               /\ r.nextHop.Id \notin DOMAIN inboxes)
              => /\ lastOp'.info.storeCalled
                 /\ lastOp'.err # Nil
                 /\ tasks'[t].val = lastOp'.err
                 /\ inboxes' = inboxes]_vars

\* a final packet for a recipient without inbox was handled and refused
C9_Witness ==
    /\ lastOp.info.kind = "COMM"
    /\ lastOp.info.storeCalled
    /\ lastOp.info.id \in ClientIds
    /\ lastOp.info.id \notin DOMAIN inboxes
    /\ lastOp.err = "create error"

(***************************************************************************)
(* C10.  The accept loop never terminates on a per-connection error: the  *)
(* process, and with it the loop, is still running after any failure in   *)
(* the handling of a connection.                                          *)
(***************************************************************************)
C10_AcceptLoopGoesOn == crashed = FALSE

(***************************************************************************)
(* C11.  No ordering across packets: a relayed COMM packet A that waits   *)
(* to be forwarded can be overtaken by the packet of a later connection   *)
(* B, so while A waits either B has been accepted already or the accept   *)
(* loop is ready to accept it.                                            *)
(***************************************************************************)
\* goroutine t holds an unwrappable COMM packet with the relay flag that
\* ReceivedPacket has not forwarded yet
RelayPending(t) ==
    /\ tasks[t].pc \in {"read", "switch"}
    /\ LET packet == IF tasks[t].pc = "read"
                     THEN UnmarshalPacket(tasks[t].conn.wire).packet
                     ELSE tasks[t].packet
       IN  /\ packet.Flag = COMM_FLAG
           /\ packet.Data.type = "Sphinx"
           /\ ProcessPacket(packet.Data).err = Nil
           /\ ProcessPacket(packet.Data).flag = RelayFlag

C11_NoOrderingAcrossPackets ==
    \A a \in 1..Len(tasks) :
        (RelayPending(a) /\ iters < MaxConns) => (a < Len(tasks) \/ lpc = "accept")

(***************************************************************************)
(* C12.  When the authentication of a PULL request fails, the provider    *)
(* sends an auth-failed envelope back to the requesting client.           *)
(***************************************************************************)
C12_AuthFailedEnvelope ==
    (/\ lastOp.info.kind = "PULL"
     /\ lastOp.err = "authentication went wrong")
    => lastOp.sends # <<>>

(***************************************************************************)
(* C13.  After a successful ASSIGN request exactly one envelope has been  *)
(* sent, to the host:port of the client descriptor; its flag is the one   *)
(* byte 0xA9 and its body the token stored in the client's record.        *)
(***************************************************************************)
C13_TokenEnvelope ==
    (/\ lastOp.info.kind = "ASSIGN"
     /\ lastOp.err = Nil)
    => /\ lastOp.info.id \in DOMAIN assignedClients
       /\ LET record == assignedClients[lastOp.info.id]
          IN  lastOp.sends =
                 << [to |-> Address(record.Host, record.Port),
                     pkt |-> [Flag |-> <<169>>, Data |-> record.Token]] >>

(***************************************************************************)
(* C14.  Every connection is closed after its single envelope: no         *)
(* HandleConnection goroutine stays blocked for ever on its error         *)
(* channel, whatever the outcome of the connection.                       *)
(***************************************************************************)
\* goroutine t waits to send on errs, errs is full, and the accept loop has
\* taken its one value from it: nobody will receive from errs again, so the
\* goroutine never returns and its deferred conn.Close() never runs
BlockedForEver(t) ==
    /\ tasks[t].pc \in {"send", "final"}
    /\ tasks[t].buf # <<>>
    /\ (t < Len(tasks) \/ lpc = "accept")

C14_ConnectionClosed == \A t \in 1..Len(tasks) : ~BlockedForEver(t)

(***************************************************************************)
(* C15.  A handler never blocks the accept loop: while the handler of an  *)
(* accepted connection has not finished its work, the accept loop is      *)
(* ready to accept the next connection.                                   *)
(***************************************************************************)
C15_AcceptLoopNotBlocked ==
    (/\ \E t \in 1..Len(tasks) : tasks[t].pc \in {"read", "switch"}
     /\ iters < MaxConns)
    => ENABLED (AcceptError \/ \E c \in Conns : AcceptConn(c))

(***************************************************************************)
(* C16.  Accesses to assignedClients are mutually exclusive: in no        *)
(* reachable state can two handler goroutines be in an access to the map  *)
(* at the same time when one of them is the write of a registration.      *)
(***************************************************************************)
C16_MapMutualExclusion == ~MapRace

(***************************************************************************)
(* C17.  A failed registration leaves the client table unchanged: when    *)
(* the handling of an ASSIGN request ends in an error, assignedClients is *)
(* what it was before.                                                    *)
(***************************************************************************)
C17_FailedRegistration ==
    [][\A t \in 1..Len(tasks) :
          (HandlerStep(t, ASSIGNE_FLAG) /\ lastOp'.err # Nil)
          => assignedClients' = assignedClients]_vars

(***************************************************************************)
(* The provider variables while a helper or the client is looked at on    *)
(* its own.                                                               *)
(***************************************************************************)
providerVars == <<assignedClients, inboxes, lpc, iters, tasks, crashed, logged,
                  lastOp, issued, stored, delivered>>

ProviderAtRest ==
    /\ assignedClients = EmptyMap
    /\ inboxes = EmptyMap
    /\ lpc = "accept"
    /\ iters = 0
    /\ tasks = <<>>
    /\ crashed = FALSE
    /\ logged = Nil
    /\ lastOp = [info |-> NoInfo, err |-> Nil, sends |-> <<>>, dials |-> <<>>]
    /\ issued = [id \in ClientIds |-> <<>>]
    /\ stored = [id \in ClientIds |-> <<>>]
    /\ delivered = [id \in ClientIds |-> [name \in FileNames |-> 0]]

(***************************************************************************)
(* FetchMessages on its own: one call for a client table, a file system,  *)
(* a client id and an environment drawn from the sets below.              *)
(***************************************************************************)
\* the table before any registration and after the registration of "a"
FetchTables ==
    {EmptyMap,
     RegisterNewClient(EmptyMap, EmptyMap, ClientConfigBytes("a", "h1"), NoFault).ac}

\* an inbox directory: some of the file names, each with a payload
FetchDirs ==
    UNION {[names -> Payloads] : names \in SUBSET FileNames}

\* no inbox at all, or the inbox of "a"
FetchInboxes == {EmptyMap} \cup {Put(EmptyMap, "a", dir) : dir \in FetchDirs}

FetchFaults ==
    {NoFault} \cup [op : {"dirExists", "readDir", "readFile", "dial"},
                    n : 1..Len(FileOrder)]

NoSignal == [signal |-> "", err |-> Nil, sends |-> <<>>, dials |-> <<>>]

FetchInit ==
    /\ ProviderAtRest
    /\ sample = NoCall
    /\ client = NoClient
    /\ fetch \in [op : {"FetchMessages"}, ac : FetchTables, fs : FetchInboxes,
                  clientId : ClientIds, fault : FetchFaults, done : {FALSE},
                  out : {NoSignal}]

FetchCall ==
    /\ fetch.op = "FetchMessages"
    /\ fetch.done = FALSE
    /\ fetch' = [fetch EXCEPT !.done = TRUE,
                              !.out = FetchMessages(fetch.ac, fetch.fs,
                                                    fetch.clientId, fetch.fault)]
    /\ UNCHANGED <<providerVars, sample, client>>

FetchNext == FetchCall

SpecFetch == FetchInit /\ [][FetchNext]_vars

(***************************************************************************)
(* C18.  The signals of FetchMessages.                                    *)
(***************************************************************************)
\* the inbox of the client of the call exists; its files as ReadDir lists them
FetchInboxExists == fetch.clientId \in DOMAIN fetch.fs

FetchFiles == IF FetchInboxExists THEN DirFiles(fetch.fs[fetch.clientId]) ELSE <<>>

\* host:port of the client's current record
FetchAddress ==
    Address(Lookup(fetch.ac, fetch.clientId).Host, Lookup(fetch.ac, fetch.clientId).Port)

\* one envelope(COMM, message bytes) to the client for each of the first n files
FetchEnvelopes(n) ==
    [i \in 1..n |-> [to |-> FetchAddress,
                     pkt |-> WrapWithFlag(COMM_FLAG,
                                          fetch.fs[fetch.clientId][FetchFiles[i]])]]

\* the messages whose read fails, and those for which the dial fails
FetchReadFails == {i \in 1..Len(FetchFiles) : Fails(fetch.fault, "readFile", i)}

FetchDialFails ==
    {i \in 1..Len(FetchFiles) :
        Fails(fetch.fault, "dial", i) \/ Unreachable(FetchAddress)}

Least(S) == CHOOSE i \in S : \A j \in S : i <= j

MaxLen == 3

pathLength == 2

Mixes == {"mixA", "mixB", "mixC"}

\* the lists of at most MaxLen mixes, repetitions allowed
Slices == UNION {[1..n -> Mixes] : n \in 0..MaxLen}

\* what rand.Perm(n) can return
Perm(n) == {f \in [1..n -> 1..n] : \A i, j \in 1..n : f[i] = f[j] => i = j}

(***************************************************************************)
(* Faulty variant of Permute, used to test the properties: every entry is *)
(* written from the position drawn first.                                 *)
(***************************************************************************)
Permute_Repeat(slice, permutation) ==
    [v \in 1..Len(slice) |-> slice[permutation[1]]]

\* for i, v := range permutation { permutedData[v] = slice[i] }
Permute(slice, permutation) ==
    [v \in 1..Len(slice) |-> slice[CHOOSE i \in 1..Len(slice) : permutation[i] = v]]

\* permuted[:length]; slicing beyond the length of permuted panics
RandomSample(slice, length, permutation) ==
    LET permuted == Permute(slice, permutation)
    IN  IF length > Len(permuted)
        THEN [panic |-> TRUE, out |-> <<>>]
        ELSE [panic |-> FALSE, out |-> SubSeq(permuted, 1, length)]

SampleInit ==
    /\ ProviderAtRest
    /\ fetch = NoCall
    /\ client = NoClient
    /\ \E slice \in Slices :
         sample \in [op : {"input"}, slice : {slice}, permutation : Perm(Len(slice)),
                     length : 0..MaxLen, panic : {FALSE}, out : {<<>>}]

CallPermute ==
    /\ sample.op = "input"
    /\ sample' = [sample EXCEPT !.op = "Permute",
                                !.out = Permute(sample.slice, sample.permutation)]
    /\ UNCHANGED <<providerVars, fetch, client>>

CallRandomSample ==
    /\ sample.op = "input"
    /\ LET r == RandomSample(sample.slice, sample.length, sample.permutation)
       IN  sample' = [sample EXCEPT !.op = "RandomSample", !.out = r.out,
                                    !.panic = r.panic]
    /\ UNCHANGED <<providerVars, fetch, client>>

SampleNext == CallPermute \/ CallRandomSample

SpecSample == SampleInit /\ [][SampleNext]_vars

(***************************************************************************)
(* C19.  For every list of mixes, every length L <= |mixes| and every     *)
(* permutation drawn, RandomSample returns exactly L entries, each taken  *)
(* from a different position of the list (L distinct mixes when the mixes *)
(* of the list are distinct), and Permute returns a rearrangement of the  *)
(* list with the same multiset of entries.                                *)
(***************************************************************************)
Count(seq, x) == Cardinality({i \in 1..Len(seq) : seq[i] = x})

Distinct(seq) == \A i, j \in 1..Len(seq) : seq[i] = seq[j] => i = j

C19_SampleAndPermute ==
    /\ (sample.op = "RandomSample" /\ sample.length <= Len(sample.slice)) =>
          /\ sample.panic = FALSE
          /\ Len(sample.out) = sample.length
          /\ \E pos \in [1..sample.length -> 1..Len(sample.slice)] :
                /\ Distinct(pos)
                /\ \A k \in 1..sample.length : sample.out[k] = sample.slice[pos[k]]
          /\ Distinct(sample.slice) => Distinct(sample.out)
    /\ sample.op = "Permute" =>
          /\ Len(sample.out) = Len(sample.slice)
          /\ \A x \in Mixes : Count(sample.out, x) = Count(sample.slice, x)

\* a path of pathLength mixes was sampled from a longer list of distinct
\* mixes, and it is not the head of the list
C19_Witness ==
    /\ sample.op = "RandomSample"
    /\ sample.length = pathLength
    /\ Len(sample.slice) > pathLength
    /\ Distinct(sample.slice)
    /\ Len(sample.out) = pathLength
    /\ sample.out # SubSeq(sample.slice, 1, pathLength)

(***************************************************************************)
(* The client (package client): its accept loop starts one                *)
(* HandleConnection goroutine per accepted connection and goes on at      *)
(* once.  os.Exit and a panic that no goroutine recovers end the process. *)
(***************************************************************************)
MaxClientConns == 3

ClientPackets == {"p1", "p2"}

\* an accepted connection: its read fails, or it delivers a packet
ClientConns ==
    {[read |-> "err", bytes |-> <<>>]}
    \cup {[read |-> "ok", bytes |-> <<p>>] : p \in ClientPackets}

\* NewClient returned and Run started ListenForIncomingConnections
ClientInit ==
    /\ ProviderAtRest
    /\ fetch = NoCall
    /\ sample = NoCall
    /\ client = [running |-> TRUE, exit |-> "none", iters |-> 0, tasks |-> <<>>]

\* c.listener.Accept() fails: the error is printed and os.Exit(1) is called
ClientAcceptError ==
    /\ client.running
    /\ client.iters < MaxClientConns
    /\ client' = [client EXCEPT !.running = FALSE, !.exit = "os.Exit(1)",
                                !.iters = @ + 1]
    /\ UNCHANGED <<providerVars, fetch, sample>>

\* Accept succeeds: go c.HandleConnection(conn), and the loop goes on
ClientAccept(c) ==
    /\ client.running
    /\ client.iters < MaxClientConns
    /\ client' = [client EXCEPT !.iters = @ + 1,
                                !.tasks = Append(@, [pc |-> "read", conn |-> c,
                                                     packet |-> <<>>])]
    /\ UNCHANGED <<providerVars, fetch, sample>>

\* HandleConnection: conn.Read(buff); panic(err) when it fails
ClientRead(t) ==
    /\ client.running
    /\ client.tasks[t].pc = "read"
    /\ client' = IF client.tasks[t].conn.read = "err"
                 THEN [client EXCEPT !.running = FALSE, !.exit = "panic",
                                     !.tasks[t].pc = "panic"]
                 ELSE [client EXCEPT !.tasks[t].pc = "process",
                                     !.tasks[t].packet = client.tasks[t].conn.bytes]
    /\ UNCHANGED <<providerVars, fetch, sample>>

\* HandleConnection: c.ProcessPacket(buff[:reqLen]); conn.Close()
ClientProcessPacket(t) ==
    /\ client.running
    /\ client.tasks[t].pc = "process"
    /\ client' = [client EXCEPT !.tasks[t].pc = "closed"]
    /\ UNCHANGED <<providerVars, fetch, sample>>

ClientNext ==
    \/ ClientAcceptError
    \/ \E c \in ClientConns : ClientAccept(c)
    \/ \E t \in 1..Len(client.tasks) : ClientRead(t)
    \/ \E t \in 1..Len(client.tasks) : ClientProcessPacket(t)

SpecClient == ClientInit /\ [][ClientNext]_vars

(***************************************************************************)
(* C20.  A failure in the handling of one connection at the client is     *)
(* isolated to that connection: when the read of an accepted connection   *)
(* has failed, the client process is still running.                       *)
(***************************************************************************)
C20_ClientFailureIsolated ==
    (\E t \in 1..Len(client.tasks) :
        client.tasks[t].conn.read = "err" /\ client.tasks[t].pc # "read")
    => client.running

====
